---- MODULE Spec2Model ----
(***************************************************************************)
(* One IdleTransaction (src/unnamed/part_000) with its                      *)
(* IdleTransactionSpanRecorder, its heartbeat timer and its idle timers,   *)
(* driven by a caller that initialises the recorder, adds spans, finishes  *)
(* spans, and calls _pushActivity and _popActivity on the transaction.     *)
(*                                                                         *)
(* Time is counted in heartbeat periods: one unit is 5000 ms, the delay    *)
(* _pingHeartbeat gives setTimeout, so an idle timeout of 5000 ms is 1;    *)
(* timestampWithMs() and every timestamp are in the same unit.             *)
(* A timer fires as soon as it is due: time does not advance past a due    *)
(* timer, and timers due at the same instant fire in any order.            *)
(*                                                                         *)
(* Beside it, each under a specification of its own: the TracingRouter     *)
(* (src/packages/tracing/src/integrations/tracing/router.ts), which starts *)
(* a transaction on page load and on every history change, and the event   *)
(* processor BrowserTracing.setupOnce registers                             *)
(* (src/packages/tracing/src/integrations/browsertracing.ts), and          *)
(* afterNextFrame (src/packages/react/src/profiler.tsx), with its own      *)
(* clock in units of 100 ms.                                               *)
(*                                                                         *)
(* An optional value (undefined | null | x) is the sequence <<>> or <<x>>. *)
(***************************************************************************)
EXTENDS Integers, Sequences, FiniteSets, TLC

\* ---------------------------------------------------------------- bounds
\* The clock runs from 1 to MaxTime.
MaxTime == 5
\* The caller makes at most MaxCalls calls on the transaction and its spans.
MaxCalls == 4
\* The history changes at most MaxNavigations times.
MaxNavigations == 2
\* An event's timestamps run from 0 to MaxStamp seconds.
MaxStamp == 3
\* maxTransactionDuration runs from 0 to MaxDuration seconds.
MaxDuration == 2
\* afterNextFrame is called at most MaxFrameCalls times.
MaxFrameCalls == 2
\* The clock of the frame callbacks runs from 0 to MaxFrameTime.
MaxFrameTime == 3

\* ------------------------------------------------------------- constants
\* setTimeout(..., 5000) in _pingHeartbeat: one unit of time.
HeartbeatPeriod == 1
\* if (this._heartbeatCounter >= 3)
StaleBeats == 3
\* window.setTimeout(done, 100): one unit of the frame clock.
FallbackTimeout == 1

\* The transaction's own spanId, and the ids the caller's spans and
\* activities carry.  "ab" is the concatenation of "a" and "b".
TxId == "t"
SpanIds == {"a", "b", "ab"}
\* The ids of the child spans the caller creates, in the order it creates them.
ChildIds == <<"a", "b">>
\* The constructor's idleTimeout argument: 0 ms or 5000 ms.
IdleTimeouts == {0, 1}

\* window.location.pathname, and what a beforeNavigate option returns for a
\* path name: null, or a name that may be empty.
Pathnames == {"/", "/a"}
BeforeNavigateResults == {<<>>, <<"">>, <<"home">>}
\* options.beforeNavigate: undefined, or a function of the path name.
BeforeNavigates == {<<>>} \cup {<<f>> : f \in [Pathnames -> BeforeNavigateResults]}

\* event.timestamp and event.start_timestamp: undefined or a number.
Stamps == {<<>>} \cup {<<t>> : t \in 0..MaxStamp}
\* The events the processor is given: event.type, the two timestamps,
\* event.contexts.trace.status (<<>>: there is no contexts.trace), and the
\* keys of event.tags.
Events ==
    [type : {"transaction", "event"},
     timestamp : Stamps,
     start_timestamp : Stamps,
     trace : {<<>>, <<"ok">>},
     tags : {{}, {"heartbeat"}}]

VARIABLES
    now,                  \* timestampWithMs()
    idleTimeout,          \* IdleTransaction._idleTimeout
    activities,           \* Object.keys(IdleTransaction._activities), in insertion order
    heartbeatTimer,       \* IdleTransaction._heartbeatTimer: id of the last heartbeat timer set
    hbTimers,             \* pending heartbeat timers: [id, due]
    prevHeartbeatString,  \* IdleTransaction._prevHeartbeatString
    heartbeatCounter,     \* IdleTransaction._heartbeatCounter
    idleTimers,           \* pending timers set by _popActivity, in creation order: [due, end]
    hasSpanRecorder,      \* this.spanRecorder !== undefined
    spans,                \* this.spanRecorder.spans: span ids in order
    spanObj,              \* the span objects created so far: id -> [startTimestamp, endTimestamp, status]
    patched,              \* ids of the spans whose finish was replaced by the recorder's add
    tags,                 \* the transaction's tags.heartbeat
    finalized,            \* the underlying Transaction.finish has run
    emitted,              \* number of times the transaction reached the finish/emit sink
    thrown,               \* what the last operation threw: "none", "TypeError", "RangeError"
    calls,                \* history: number of caller calls so far
    finalizeCalls,        \* history: number of _finishIdleTransaction calls so far
    lastFinalize,         \* history: the latest _finishIdleTransaction call: <<[by, end, ran]>>,
                          \*   ran = it found a span recorder
    obs,                  \* history: what the heartbeat ticks observed
    initAt                \* history: time of initSpanRecorder, while it is the caller's only call

\* The router.
VARIABLES
    options,              \* TracingRouter.options: startTransactionOnPageLoad,
                          \*   startTransactionOnLocationChange, beforeNavigate
    hasLocation,          \* global && global.location
    hasHub,               \* the hub given to init is not undefined
    pathname,             \* window.location.pathname
    _activeTransaction,   \* TracingRouter._activeTransaction: <<>> or <<index in transactions>>
    transactions,         \* what hub.startTransaction was given, call by call, and the
                          \*   number of finish calls on the transaction it returned
    scopeSpan,            \* the span set on the hub's scope: <<>> or <<index in transactions>>
    handlers,             \* the history handler is registered
    navigations           \* history: number of history changes so far

\* The event processor.
VARIABLES
    event,                \* the event the processor is given
    maxTransactionDuration, \* BrowserTracing.options.maxTransactionDuration
    hasIntegration,       \* getCurrentHub().getIntegration(BrowserTracing) is defined
    processed,            \* the processor has been called on the event
    returned              \* what it returned: <<>> (nothing yet, or null) or <<event>>

\* afterNextFrame, call by call.
VARIABLES
    frameNow,             \* the time, in units of 100 ms
    raf,                  \* the call's animation frame request: "unset", "pending",
                          \*   "fired" or "cancelled"
    timeout,              \* the call's fallback timer: "unset", "pending", "fired" or "cleared"
    calledAt,             \* the time of the call
    callbackTimers,       \* number of pending window.setTimeout(callback) timers of the call
    invoked               \* number of times the call's callback has run

transactionVars ==
    <<now, idleTimeout, activities, heartbeatTimer, hbTimers, prevHeartbeatString,
      heartbeatCounter, idleTimers, hasSpanRecorder, spans, spanObj, patched, tags,
      finalized, emitted, thrown, calls, finalizeCalls, lastFinalize, obs, initAt>>

routerVars ==
    <<options, hasLocation, hasHub, pathname, _activeTransaction, transactions,
      scopeSpan, handlers, navigations>>

processorVars == <<event, maxTransactionDuration, hasIntegration, processed, returned>>

frameVars == <<frameNow, raf, timeout, calledAt, callbackTimers, invoked>>

vars == <<transactionVars, routerVars, processorVars, frameVars>>

\* ---------------------------------------------------------------- helpers
Range(s) == {s[i] : i \in 1..Len(s)}

Remove(s, x) == SelectSeq(s, LAMBDA y : y # x)

\* !span.endTimestamp: undefined and 0 are both falsy.
Falsy(e) == e = <<>> \/ e = <<0>>

\* keys.reduce((prev, current) => prev + current), for a non-empty keys.
RECURSIVE HeartbeatString(_)
HeartbeatString(keys) ==
    IF Len(keys) = 1 THEN keys[1]
    ELSE HeartbeatString(SubSeq(keys, 1, Len(keys) - 1)) \o keys[Len(keys)]

\* ------------------------------------------------------- activity tracker
\* PushActivity with one entry per call, as a list of calls would keep.
PushActivityAppend(acts, spanId) == Append(acts, spanId)

\* _pushActivity: this._activities[spanId] = true.  A key already present
\* keeps its place in the key order.
PushActivity(acts, spanId) ==
    IF spanId \in Range(acts) THEN acts ELSE Append(acts, spanId)

\* _popActivity, first half: delete this._activities[spanId] if it is set.
PopActivity(acts, spanId) == Remove(acts, spanId)

\* IdleTimer with the end timestamp left at the time of the call.
IdleTimerNoTimeout == [due |-> now + idleTimeout, end |-> now]

\* _popActivity, second half: the timer it sets when no key is left.
\* end = timestampWithMs() + timeout / 1000 is computed here, not when the
\* timer fires.
IdleTimer == [due |-> now + idleTimeout, end |-> now + idleTimeout]

\* PopTimers with no timer set when the timeout is 0.
PopTimersNoneAtZero(acts) ==
    IF Len(acts) = 0 /\ idleTimeout > 0 THEN Append(idleTimers, IdleTimer) ELSE idleTimers

\* if (count === 0) setTimeout(() => this._finishIdleTransaction(end), timeout):
\* the timer's handle is not kept, so no pending timer is ever cleared.
PopTimers(acts) ==
    IF Len(acts) = 0 THEN Append(idleTimers, IdleTimer) ELSE idleTimers

\* ------------------------------------------------------------ the recorder
\* new IdleTransactionSpanRecorder(maxlen, this._popActivity, this._pushActivity)
\* against constructor(maxlen, pushActivity, popActivity): the recorder's
\* _pushActivity field holds the transaction's _popActivity and the other
\* way round.
RecorderPushActivity == "_popActivity"
RecorderPopActivity == "_pushActivity"

\* The methods are handed over unbound and called as this._pushActivity(id)
\* with this = the recorder.
HookThis == "recorder"

\* Both methods start by reading or writing this._activities[spanId]; on a
\* receiver that has no _activities that is a TypeError.
HookThrows == HookThis # "transaction"

\* span.finish = (endTimestamp) => { span.finish(endTimestamp); ... }: the
\* new finish calls itself, and ends in a RangeError (stack overflow) before
\* anything else has run.
FinishThrows(spanId) == spanId \in patched

\* ----------------------------------------------------------------- finalize
\* KeepSpan with the boundary off by one: a span that starts exactly at
\* endTimestamp is kept.
KeepSpanAtBoundary(objs, spanId, endTimestamp) ==
    spanId = TxId \/ objs[spanId].startTimestamp <= endTimestamp

\* const keepSpan = span.startTimestamp < endTimestamp, and the transaction
\* itself is always kept.
KeepSpan(objs, spanId, endTimestamp) ==
    spanId = TxId \/ objs[spanId].startTimestamp < endTimestamp

\* CancelSpan without the test of span.endTimestamp.
CancelSpanAlways(o, endTimestamp) ==
    [o EXCEPT !.endTimestamp = <<endTimestamp>>, !.status = "cancelled"]

\* CancelSpan without the setStatus call.
CancelSpanNoStatus(o, endTimestamp) ==
    IF Falsy(o.endTimestamp) THEN [o EXCEPT !.endTimestamp = <<endTimestamp>>] ELSE o

\* if (!span.endTimestamp) { span.endTimestamp = endTimestamp; span.setStatus(Cancelled) }
CancelSpan(o, endTimestamp) ==
    IF Falsy(o.endTimestamp)
    THEN [o EXCEPT !.endTimestamp = <<endTimestamp>>, !.status = "cancelled"]
    ELSE o

FilteredSpans(objs, endTimestamp) ==
    SelectSeq(spans, LAMBDA spanId : KeepSpan(objs, spanId, endTimestamp))

CancelledObjs(objs, endTimestamp) ==
    [spanId \in DOMAIN objs |->
        IF spanId \in Range(spans) /\ spanId # TxId
        THEN CancelSpan(objs[spanId], endTimestamp)
        ELSE objs[spanId]]

\* The underlying Transaction.finish(endTimestamp): guarded by the finalized
\* flag, sets the transaction's end time and emits.
BaseFinishObjs(objs, endTimestamp) ==
    IF finalized THEN objs ELSE [objs EXCEPT ![TxId].endTimestamp = <<endTimestamp>>]

BaseFinishEmitted == IF finalized THEN emitted ELSE emitted + 1

\* _finishIdleTransaction ends in this.finish(), which throws when the
\* transaction's finish was replaced.
FinishIdleThrows == hasSpanRecorder /\ FinishThrows(TxId)

\* _finishIdleTransaction(endTimestamp), called with the span objects as
\* they are at the call.
FinishIdleTransaction(objs, endTimestamp, by) ==
    /\ finalizeCalls' = finalizeCalls + 1
    /\ lastFinalize' = <<[by |-> by, end |-> endTimestamp, ran |-> hasSpanRecorder]>>
    /\ IF hasSpanRecorder
       THEN /\ spans' = FilteredSpans(objs, endTimestamp)
            /\ IF FinishThrows(TxId)
               THEN /\ spanObj' = CancelledObjs(objs, endTimestamp)
                    /\ UNCHANGED <<finalized, emitted>>
               ELSE \* this.finish(): no argument, so the end time is now
                    /\ spanObj' = BaseFinishObjs(CancelledObjs(objs, endTimestamp), now)
                    /\ emitted' = BaseFinishEmitted
                    /\ finalized' = TRUE
       ELSE /\ spanObj' = objs
            /\ UNCHANGED <<spans, finalized, emitted>>

\* ---------------------------------------------------------------- heartbeat
\* What the ticks saw: the membership at the latest tick, the number of
\* consecutive ticks ending at the latest one that saw that same non-empty
\* membership, and whether every tick so far saw a non-empty membership
\* different from the one before.
Observe(keys) ==
    [set |-> Range(keys),
     run |-> IF Len(keys) = 0 THEN 0
             ELSE IF Range(keys) = obs.set THEN obs.run + 1 ELSE 1,
     changing |-> obs.changing /\ Len(keys) > 0 /\ Range(keys) # obs.set]

\* BeatCounter with the counter reset when no key is left.
BeatCounterResetOnEmpty(keys) ==
    IF Len(keys) > 0 /\ <<HeartbeatString(keys)>> = prevHeartbeatString
    THEN heartbeatCounter + 1
    ELSE 0

\* _heartbeatCounter after the tick's comparison: untouched when there is no
\* key, else one more when the string equals the previous one, else 0.
BeatCounter(keys) ==
    IF Len(keys) = 0 THEN heartbeatCounter
    ELSE IF <<HeartbeatString(keys)>> = prevHeartbeatString
         THEN heartbeatCounter + 1
         ELSE 0

\* PingHeartbeat with a second timer set beside the stored one.
PingHeartbeatTwice(timers) ==
    timers \cup {[id |-> heartbeatTimer + 1, due |-> now + HeartbeatPeriod],
                 [id |-> heartbeatTimer + 2, due |-> now + HeartbeatPeriod]}

\* _pingHeartbeat(): one more pending timer, a period ahead; its id is what
\* _heartbeatTimer holds afterwards.
PingHeartbeat(timers) ==
    timers \cup {[id |-> heartbeatTimer + 1, due |-> now + HeartbeatPeriod]}

\* The heartbeat timer fires: _beat().
Beat ==
    \E tm \in hbTimers :
      /\ tm.due <= now
      /\ LET keys == activities
             heartbeatString == HeartbeatString(keys)
             counter == BeatCounter(keys)
             stalled == Len(keys) > 0 /\ counter >= StaleBeats
             aborted == stalled /\ FinishIdleThrows
             \* clearTimeout(this._heartbeatTimer)
             cleared == {t \in hbTimers \ {tm} : t.id # heartbeatTimer}
         IN
         /\ heartbeatCounter' = counter
         /\ IF stalled
            THEN /\ tags' = <<"failed">>
                 /\ FinishIdleTransaction(
                       [spanObj EXCEPT ![TxId].status = "deadline_exceeded"], now, "heartbeat")
            ELSE UNCHANGED <<tags, spans, spanObj, finalized, emitted,
                             finalizeCalls, lastFinalize>>
         \* an exception out of _finishIdleTransaction skips the rest of _beat
         /\ prevHeartbeatString' =
               IF Len(keys) > 0 /\ ~aborted THEN <<heartbeatString>> ELSE prevHeartbeatString
         /\ IF aborted
            THEN /\ hbTimers' = cleared
                 /\ UNCHANGED heartbeatTimer
            ELSE \* _pingHeartbeat()
                 /\ heartbeatTimer' = heartbeatTimer + 1
                 /\ hbTimers' = PingHeartbeat(cleared)
         /\ thrown' = IF aborted THEN "RangeError" ELSE "none"
         /\ obs' = Observe(keys)
      /\ UNCHANGED <<now, idleTimeout, activities, idleTimers, hasSpanRecorder,
                     patched, calls, initAt>>
      /\ UNCHANGED <<routerVars, processorVars, frameVars>>

\* The oldest idle timer fires: _finishIdleTransaction(end).  The timers all
\* carry the same timeout, so they fire in the order they were set.
IdleFire ==
    /\ Len(idleTimers) > 0
    /\ Head(idleTimers).due <= now
    /\ idleTimers' = Tail(idleTimers)
    /\ FinishIdleTransaction(spanObj, Head(idleTimers).end, "idle")
    /\ thrown' = IF FinishIdleThrows THEN "RangeError" ELSE "none"
    /\ UNCHANGED <<now, idleTimeout, activities, heartbeatTimer, hbTimers,
                   prevHeartbeatString, heartbeatCounter, hasSpanRecorder, patched,
                   tags, calls, obs, initAt>>
    /\ UNCHANGED <<routerVars, processorVars, frameVars>>

TimerDue ==
    \/ \E tm \in hbTimers : tm.due <= now
    \/ Len(idleTimers) > 0 /\ Head(idleTimers).due <= now

\* One unit of time passes, when no timer is due.
Tick ==
    /\ now < MaxTime
    /\ ~TimerDue
    /\ now' = now + 1
    /\ UNCHANGED <<idleTimeout, activities, heartbeatTimer, hbTimers,
                   prevHeartbeatString, heartbeatCounter, idleTimers, hasSpanRecorder,
                   spans, spanObj, patched, tags, finalized, emitted, thrown, calls,
                   finalizeCalls, lastFinalize, obs, initAt>>
    /\ UNCHANGED <<routerVars, processorVars, frameVars>>

\* --------------------------------------------------------- the caller's calls
\* SpanRecorder.add(span), below the recorder's capacity: append.
SuperAdd(list, spanId) == Append(list, spanId)

\* IdleTransactionSpanRecorder.add(span), for a span object already created:
\* replace span.finish, super.add(span), then this._pushActivity(span.spanId).
RecorderAdd(spanId) ==
    /\ patched' = patched \cup {spanId}
    /\ spans' = SuperAdd(spans, spanId)
    /\ IF HookThrows
       THEN /\ thrown' = "TypeError"
            /\ UNCHANGED <<activities, idleTimers>>
       ELSE /\ thrown' = "none"
            /\ IF RecorderPushActivity = "_pushActivity"
               THEN /\ activities' = PushActivity(activities, spanId)
                    /\ UNCHANGED idleTimers
               ELSE /\ activities' = PopActivity(activities, spanId)
                    /\ idleTimers' = PopTimers(PopActivity(activities, spanId))

\* initSpanRecorder(): create the recorder if there is none, then add(this).
\* The hub that starts the transaction calls it, once.
InitSpanRecorder ==
    /\ calls < MaxCalls
    /\ ~hasSpanRecorder
    /\ calls' = calls + 1
    /\ hasSpanRecorder' = TRUE
    /\ RecorderAdd(TxId)
    /\ initAt' = IF calls = 0 THEN <<now>> ELSE <<>>
    /\ UNCHANGED <<now, idleTimeout, heartbeatTimer, hbTimers, prevHeartbeatString,
                   heartbeatCounter, spanObj, tags, finalized, emitted, finalizeCalls,
                   lastFinalize, obs>>
    /\ UNCHANGED <<routerVars, processorVars, frameVars>>

\* A child span is created and added to the recorder (startChild).  The
\* caller supplies its timing: it starts now or one unit ahead, and is open
\* or already ended.
AddSpan ==
    \E start \in {now, now + 1} :
    \E end \in {<<>>, <<start>>} :
    LET n == Cardinality(DOMAIN spanObj)
        spanId == ChildIds[n]
    IN
      /\ n <= Len(ChildIds)
      /\ calls < MaxCalls
      /\ hasSpanRecorder
      /\ calls' = calls + 1
      /\ spanObj' = spanObj @@
            (spanId :> [startTimestamp |-> start, endTimestamp |-> end, status |-> "unset"])
      /\ RecorderAdd(spanId)
      /\ UNCHANGED <<now, idleTimeout, heartbeatTimer, hbTimers, prevHeartbeatString,
                     heartbeatCounter, hasSpanRecorder, tags, finalized, emitted,
                     finalizeCalls, lastFinalize, obs>>
      /\ initAt' = <<>>
      /\ UNCHANGED <<routerVars, processorVars, frameVars>>

\* span.finish(timestampWithMs()) on the transaction (as the router does on
\* a history change) or on a child: the replaced finish overflows the stack;
\* the transaction's own finish, while it is not replaced, is the underlying
\* Transaction.finish.
FinishSpan(spanId) ==
      /\ calls < MaxCalls
      /\ calls' = calls + 1
      /\ IF FinishThrows(spanId)
         THEN /\ thrown' = "RangeError"
              /\ UNCHANGED <<spanObj, finalized, emitted>>
         ELSE /\ spanId = TxId
              /\ thrown' = "none"
              /\ spanObj' = BaseFinishObjs(spanObj, now)
              /\ emitted' = BaseFinishEmitted
              /\ finalized' = TRUE
      /\ UNCHANGED <<now, idleTimeout, activities, heartbeatTimer, hbTimers,
                     prevHeartbeatString, heartbeatCounter, idleTimers, hasSpanRecorder,
                     spans, patched, tags, finalizeCalls, lastFinalize, obs>>
      /\ initAt' = <<>>
      /\ UNCHANGED <<routerVars, processorVars, frameVars>>

Finish == \E spanId \in DOMAIN spanObj : FinishSpan(spanId)

\* transaction._pushActivity(spanId), called on the transaction.
PushActivityCall ==
    \E spanId \in SpanIds :
      /\ calls < MaxCalls
      /\ calls' = calls + 1
      /\ activities' = PushActivity(activities, spanId)
      /\ thrown' = "none"
      /\ UNCHANGED <<now, idleTimeout, heartbeatTimer, hbTimers, prevHeartbeatString,
                     heartbeatCounter, idleTimers, hasSpanRecorder, spans, spanObj,
                     patched, tags, finalized, emitted, finalizeCalls, lastFinalize,
                     obs>>
      /\ initAt' = <<>>
      /\ UNCHANGED <<routerVars, processorVars, frameVars>>

\* transaction._popActivity(spanId), called on the transaction.
PopActivityStep(spanId) ==
      /\ calls < MaxCalls
      /\ calls' = calls + 1
      /\ activities' = PopActivity(activities, spanId)
      /\ idleTimers' = PopTimers(PopActivity(activities, spanId))
      /\ thrown' = "none"
      /\ UNCHANGED <<now, idleTimeout, heartbeatTimer, hbTimers, prevHeartbeatString,
                     heartbeatCounter, hasSpanRecorder, spans, spanObj, patched, tags,
                     finalized, emitted, finalizeCalls, lastFinalize, obs>>
      /\ initAt' = <<>>
      /\ UNCHANGED <<routerVars, processorVars, frameVars>>

PopActivityCall == \E spanId \in SpanIds : PopActivityStep(spanId)

\* ------------------------------------------------------------- the router
\* let name = window.location.pathname; if (this.options.beforeNavigate)
\* name = this.options.beforeNavigate(name): the name, or <<>> for null.
NavigationNameOrPath(name) ==
    IF options.beforeNavigate = <<>> \/ options.beforeNavigate[1][name] = <<>>
    THEN <<name>>
    ELSE options.beforeNavigate[1][name]

NavigationName(name) ==
    IF options.beforeNavigate = <<>> THEN <<name>> ELSE options.beforeNavigate[1][name]

\* FinishActive without the finish call.
FinishActiveNever == transactions

\* this._activeTransaction.finish(timestampWithMs()) if there is an active
\* transaction.
FinishActive ==
    IF _activeTransaction = <<>>
    THEN transactions
    ELSE [transactions EXCEPT ![_activeTransaction[1]].finishes = @ + 1]

\* this._activeTransaction = this._startIdleTransaction(hub, op, idleTimeout),
\* with txs the transactions as they are at the call: nothing without
\* global.location or a hub, nothing when beforeNavigate returns null;
\* otherwise hub.startTransaction({name, op, trimEnd: true}, idleTimeout) and
\* scope.setSpan of its result.  Either way the caller stores the result.
StartIdleTransaction(txs, name, op) ==
    IF hasLocation /\ hasHub /\ NavigationName(name) # <<>>
    THEN /\ transactions' = Append(txs, [name |-> NavigationName(name)[1], op |-> op,
                                          trimEnd |-> TRUE, idleTimeout |-> idleTimeout,
                                          finishes |-> 0])
         /\ _activeTransaction' = <<Len(txs) + 1>>
         /\ scopeSpan' = <<Len(txs) + 1>>
    ELSE /\ transactions' = txs
         /\ _activeTransaction' = <<>>
         /\ scopeSpan' = scopeSpan

\* TracingRouter.init(hub, idleTimeout).
RouterInit ==
    /\ ~handlers
    /\ handlers' = TRUE
    /\ IF options.startTransactionOnPageLoad
       THEN StartIdleTransaction(transactions, pathname, "pageload")
       ELSE UNCHANGED <<transactions, _activeTransaction, scopeSpan>>
    /\ UNCHANGED <<options, hasLocation, hasHub, pathname, navigations>>
    /\ UNCHANGED <<transactionVars, processorVars, frameVars>>

\* The history changes to some path name and the handler init registered runs.
HistoryChange ==
    \E name \in Pathnames :
      /\ handlers
      /\ navigations < MaxNavigations
      /\ navigations' = navigations + 1
      /\ pathname' = name
      /\ IF options.startTransactionOnLocationChange
         THEN StartIdleTransaction(FinishActive, name, "navigation")
         ELSE UNCHANGED <<transactions, _activeTransaction, scopeSpan>>
      /\ UNCHANGED <<options, hasLocation, hasHub, handlers>>
      /\ UNCHANGED <<transactionVars, processorVars, frameVars>>

\* ---------------------------------------------------- the event processor
\* event.timestamp && event.start_timestamp && (their difference is above
\* maxTransactionDuration or below 0); undefined and 0 are falsy.
IsOutdatedTransaction(e) ==
    /\ ~Falsy(e.timestamp)
    /\ ~Falsy(e.start_timestamp)
    /\ \/ e.timestamp[1] - e.start_timestamp[1] > maxTransactionDuration
       \/ e.timestamp[1] - e.start_timestamp[1] < 0

\* if (event.contexts && event.contexts.trace): the status and the tag are
\* set together, or neither is.
MarkEvent(e) ==
    IF e.trace # <<>>
    THEN [e EXCEPT !.trace = <<"deadline_exceeded">>,
                   !.tags = @ \cup {"maxTransactionDurationExceeded"}]
    ELSE e

\* EventProcessor without the test of maxTransactionDuration against 0.
EventProcessorIgnoresZero(e) ==
    IF ~hasIntegration THEN <<e>>
    ELSE IF e.type = "transaction" /\ IsOutdatedTransaction(e)
         THEN <<MarkEvent(e)>>
         ELSE <<e>>

\* The callback given to addGlobalEventProcessor: what it returns.
EventProcessor(e) ==
    IF ~hasIntegration THEN <<e>>
    ELSE IF maxTransactionDuration # 0 /\ e.type = "transaction" /\ IsOutdatedTransaction(e)
         THEN <<MarkEvent(e)>>
         ELSE <<e>>

\* The processor is called on the event.
ProcessEvent ==
    /\ ~processed
    /\ processed' = TRUE
    /\ returned' = EventProcessor(event)
    /\ UNCHANGED <<event, maxTransactionDuration, hasIntegration>>
    /\ UNCHANGED <<transactionVars, routerVars, frameVars>>

\* ---------------------------------------------------------- afterNextFrame
FrameCalls == 1..MaxFrameCalls

\* ClearTimeout that clears nothing.
ClearTimeoutNothing(state) == state

\* window.clearTimeout(timeout): a pending timer will not fire; on a timer
\* that has fired it does nothing.
ClearTimeout(state) == IF state = "pending" THEN "cleared" ELSE state

\* window.cancelAnimationFrame(raf), likewise.
CancelAnimationFrame(state) == IF state = "pending" THEN "cancelled" ELSE state

\* A fallback timer or a callback timer is due.
FrameTimerDue ==
    \E i \in FrameCalls :
       \/ timeout[i] = "pending" /\ calledAt[i] + FallbackTimeout <= frameNow
       \/ callbackTimers[i] > 0

\* afterNextFrame(callback): raf = requestAnimationFrame(done);
\* timeout = setTimeout(done, 100).
AfterNextFrame ==
    \E i \in FrameCalls :
      /\ raf[i] = "unset"
      /\ \A j \in 1..(i - 1) : raf[j] # "unset"
      /\ frameNow + FallbackTimeout <= MaxFrameTime
      /\ raf' = [raf EXCEPT ![i] = "pending"]
      /\ timeout' = [timeout EXCEPT ![i] = "pending"]
      /\ calledAt' = [calledAt EXCEPT ![i] = frameNow]
      /\ UNCHANGED <<frameNow, callbackTimers, invoked>>
      /\ UNCHANGED <<transactionVars, routerVars, processorVars>>

\* The browser paints a frame and runs done as the animation frame callback:
\* clearTimeout(timeout); cancelAnimationFrame(raf); setTimeout(callback).
RafFire ==
    \E i \in FrameCalls :
      /\ raf[i] = "pending"
      /\ raf' = [raf EXCEPT ![i] = CancelAnimationFrame("fired")]
      /\ timeout' = [timeout EXCEPT ![i] = ClearTimeout(timeout[i])]
      /\ callbackTimers' = [callbackTimers EXCEPT ![i] = @ + 1]
      /\ UNCHANGED <<frameNow, calledAt, invoked>>
      /\ UNCHANGED <<transactionVars, routerVars, processorVars>>

\* The fallback timer fires, 100 ms after the call, and runs done.
TimeoutFire(i) ==
    /\ timeout[i] = "pending"
    /\ calledAt[i] + FallbackTimeout <= frameNow
    /\ timeout' = [timeout EXCEPT ![i] = ClearTimeout("fired")]
    /\ raf' = [raf EXCEPT ![i] = CancelAnimationFrame(raf[i])]
    /\ callbackTimers' = [callbackTimers EXCEPT ![i] = @ + 1]
    /\ UNCHANGED <<frameNow, calledAt, invoked>>
    /\ UNCHANGED <<transactionVars, routerVars, processorVars>>

\* A timer set by setTimeout(callback) fires: callback().
CallbackFire(i) ==
    /\ callbackTimers[i] > 0
    /\ callbackTimers' = [callbackTimers EXCEPT ![i] = @ - 1]
    /\ invoked' = [invoked EXCEPT ![i] = @ + 1]
    /\ UNCHANGED <<frameNow, raf, timeout, calledAt>>
    /\ UNCHANGED <<transactionVars, routerVars, processorVars>>

\* 100 ms pass, when no timer is due.
FrameTick ==
    /\ frameNow < MaxFrameTime
    /\ ~FrameTimerDue
    /\ frameNow' = frameNow + 1
    /\ UNCHANGED <<raf, timeout, calledAt, callbackTimers, invoked>>
    /\ UNCHANGED <<transactionVars, routerVars, processorVars>>

\* -------------------------------------------------------- the specifications
\* new IdleTransaction(context, hub, idleTimeout): the fields' initial
\* values, and the first heartbeat timer set by _pingHeartbeat().
InitTransaction ==
    /\ now = 1
    /\ idleTimeout \in IdleTimeouts
    /\ activities = <<>>
    /\ heartbeatTimer = 1
    /\ hbTimers = {[id |-> 1, due |-> 1 + HeartbeatPeriod]}
    /\ prevHeartbeatString = <<>>
    /\ heartbeatCounter = 0
    /\ idleTimers = <<>>
    /\ hasSpanRecorder = FALSE
    /\ spans = <<>>
    /\ spanObj = (TxId :> [startTimestamp |-> 1, endTimestamp |-> <<>>, status |-> "unset"])
    /\ patched = {}
    /\ tags = <<>>
    /\ finalized = FALSE
    /\ emitted = 0
    /\ thrown = "none"
    /\ calls = 0
    /\ finalizeCalls = 0
    /\ lastFinalize = <<>>
    /\ obs = [set |-> {}, run |-> 0, changing |-> TRUE]
    /\ initAt = <<>>

\* new TracingRouter(options), in a page at some path name.
InitRouter ==
    /\ options \in [startTransactionOnPageLoad : BOOLEAN,
                    startTransactionOnLocationChange : BOOLEAN,
                    beforeNavigate : BeforeNavigates]
    /\ hasLocation \in BOOLEAN
    /\ hasHub \in BOOLEAN
    /\ pathname \in Pathnames
    /\ _activeTransaction = <<>>
    /\ transactions = <<>>
    /\ scopeSpan = <<>>
    /\ handlers = FALSE
    /\ navigations = 0

\* One router, where the router does not act.
OneRouter ==
    /\ InitRouter
    /\ options = [startTransactionOnPageLoad |-> TRUE,
                  startTransactionOnLocationChange |-> TRUE,
                  beforeNavigate |-> <<>>]
    /\ hasLocation
    /\ hasHub
    /\ pathname = "/"

\* The processor is registered and some event is on its way to it.
InitProcessor ==
    /\ event \in Events
    /\ maxTransactionDuration \in 0..MaxDuration
    /\ hasIntegration \in BOOLEAN
    /\ processed = FALSE
    /\ returned = <<>>

\* One event, where the processor does not act.
OneEvent ==
    /\ InitProcessor
    /\ event = [type |-> "event", timestamp |-> <<>>, start_timestamp |-> <<>>,
                trace |-> <<>>, tags |-> {}]
    /\ maxTransactionDuration = 0
    /\ hasIntegration

\* No call of afterNextFrame yet.
InitFrame ==
    /\ frameNow = 0
    /\ raf = [i \in FrameCalls |-> "unset"]
    /\ timeout = [i \in FrameCalls |-> "unset"]
    /\ calledAt = [i \in FrameCalls |-> 0]
    /\ callbackTimers = [i \in FrameCalls |-> 0]
    /\ invoked = [i \in FrameCalls |-> 0]

Init == InitTransaction /\ OneRouter /\ OneEvent /\ InitFrame

Next ==
    \/ InitSpanRecorder
    \/ AddSpan
    \/ Finish
    \/ PushActivityCall
    \/ PopActivityCall
    \/ Beat
    \/ IdleFire
    \/ Tick

Spec == Init /\ [][Next]_vars

\* The router alone.
InitR == InitTransaction /\ InitRouter /\ OneEvent /\ InitFrame

NextR == RouterInit \/ HistoryChange

SpecRouter == InitR /\ [][NextR]_vars

\* The event processor alone.
InitP == InitTransaction /\ OneRouter /\ InitProcessor /\ InitFrame

NextP == ProcessEvent

SpecProcessor == InitP /\ [][NextP]_vars

\* afterNextFrame alone.  Time passes and a timer that is due fires; an
\* animation frame may never come (the tab is not visible).
InitF == InitTransaction /\ OneRouter /\ OneEvent /\ InitFrame

NextF ==
    \/ AfterNextFrame
    \/ RafFire
    \/ \E i \in FrameCalls : TimeoutFire(i)
    \/ \E i \in FrameCalls : CallbackFire(i)
    \/ FrameTick

FairF ==
    /\ WF_vars(FrameTick)
    /\ \A i \in FrameCalls : WF_vars(TimeoutFire(i)) /\ WF_vars(CallbackFire(i))

SpecFrame == InitF /\ [][NextF]_vars /\ FairF

\* ==================================================================== claims

\* Some child span in the recorder has no end time.
OpenChild == \E spanId \in Range(spans) \ {TxId} : spanObj[spanId].endTimestamp = <<>>

\* The step is a call of _finishIdleTransaction.
FinalizeStep == finalizeCalls' = finalizeCalls + 1

\* C1: once _finishIdleTransaction has run on a transaction with a span
\* recorder, whichever of the idle timers and heartbeat ticks called it and
\* however often, the finish/emit sink has been invoked exactly once.
C1_ExactlyOnceEmit ==
    (lastFinalize # <<>> /\ lastFinalize[1].ran) => emitted = 1

\* C2: while no finalize has run yet and a child span added to the recorder
\* is still open, no idle timer finalizes the transaction.
C2_ActivityGating ==
    [][(finalizeCalls = 0 /\ OpenChild)
         => ~(FinalizeStep /\ lastFinalize'[1].by = "idle")]_vars

\* The recorder was initialised and the caller has done nothing else.
LeftAlone == hasSpanRecorder /\ calls = 1 /\ spans = <<TxId>>

\* C3: a transaction whose recorder was initialised at time t and which was
\* then left alone is not finalized before t + idleTimeout, and once
\* t + idleTimeout has passed it has been finalized by the idle timer, once,
\* with end timestamp t + idleTimeout.
C3_IdleAutoFinish ==
    LeftAlone =>
        /\ now < initAt[1] + idleTimeout => finalizeCalls = 0
        /\ now > initAt[1] + idleTimeout =>
              /\ finalizeCalls = 1
              /\ lastFinalize # <<>>
              /\ lastFinalize[1].by = "idle"
              /\ lastFinalize[1].end = initAt[1] + idleTimeout

\* C4: after _finishIdleTransaction(endTimestamp), every span other than the
\* transaction that was in the recorder with no end time when it was called
\* has end time endTimestamp and status cancelled.
C4_CancelStragglers ==
    [][(FinalizeStep /\ hasSpanRecorder) =>
          \A spanId \in Range(spans) \ {TxId} :
              spanObj[spanId].endTimestamp = <<>> =>
                  /\ spanObj'[spanId].endTimestamp = <<lastFinalize'[1].end>>
                  /\ spanObj'[spanId].status = "cancelled"]_vars

\* C4's case: a finalize has run and left in the recorder a child it
\* cancelled at its end timestamp.
C4_Witness ==
    /\ lastFinalize # <<>>
    /\ \E spanId \in Range(spans) \ {TxId} :
          /\ spanObj[spanId].status = "cancelled"
          /\ spanObj[spanId].endTimestamp = <<lastFinalize[1].end>>

\* s is t with some elements left out, the others in their order.
IsSubSeq(s, t) ==
    \E f \in [1..Len(s) -> 1..Len(t)] :
        /\ \A i \in 1..Len(s) : t[f[i]] = s[i]
        /\ \A i, j \in 1..Len(s) : i < j => f[i] < f[j]

\* C5: after _finishIdleTransaction(endTimestamp) the recorder holds the
\* spans it held before, in their order, without exactly those children
\* whose start time is at or after endTimestamp; the transaction's own entry
\* stays whatever its start time.
C5_DiscardAfterBoundary ==
    [][(FinalizeStep /\ hasSpanRecorder) =>
          /\ IsSubSeq(spans', spans)
          /\ \A spanId \in Range(spans) :
                spanId \in Range(spans') <=>
                    (spanId = TxId \/ spanObj[spanId].startTimestamp < lastFinalize'[1].end)]_vars

\* C5's case: a finalize has run, a child that started at or after its end
\* timestamp is gone from the recorder, and a child that started before it
\* is still there beside the transaction.
C5_Witness ==
    /\ lastFinalize # <<>>
    /\ TxId \in Range(spans)
    /\ \E gone \in patched \ Range(spans) :
          spanObj[gone].startTimestamp >= lastFinalize[1].end
    /\ \E kept \in Range(spans) \ {TxId} :
          spanObj[kept].startTimestamp < lastFinalize[1].end

\* C6: when three consecutive heartbeat ticks have seen the same non-empty
\* activity set, the transaction has been force-finalized by the heartbeat,
\* with status deadline_exceeded and the tag heartbeat = failed.
C6_StallDetection ==
    obs.run >= 3 =>
        /\ lastFinalize # <<>>
        /\ lastFinalize[1].by = "heartbeat"
        /\ spanObj[TxId].status = "deadline_exceeded"
        /\ tags = <<"failed">>

\* C7: while every heartbeat tick has seen a non-empty activity set that
\* differs in membership from the one the tick before saw, no heartbeat
\* tick has finalized the transaction; and two different non-empty sets of
\* ids never have the same heartbeat signature: when the activity set
\* differs in membership from the set the last tick saw, its signature
\* differs from the one that tick stored.
C7_ChangingSetNeverStalls ==
    /\ obs.changing => ~(lastFinalize # <<>> /\ lastFinalize[1].by = "heartbeat")
    /\ (activities # <<>> /\ obs.set # {} /\ Range(activities) # obs.set)
          => <<HeartbeatString(activities)>> # prevHeartbeatString

\* C8: a manual finish on a transaction that no finalize has touched yet
\* emits it once and leaves no open child and no child that starts at or
\* after the timestamp in the recorder.
C8_ManualFinish ==
    [][(FinishSpan(TxId) /\ finalizeCalls = 0 /\ ~finalized) =>
          /\ emitted' = emitted + 1
          /\ \A spanId \in Range(spans') \ {TxId} :
                /\ spanObj'[spanId].endTimestamp # <<>>
                /\ spanObj'[spanId].startTimestamp < now]_vars

\* C9: once a finalize has run on a transaction with a span recorder, no
\* step changes the recorder's span list, a span's end time or status, or
\* the activity set.
C9_FinalizedIsTerminal ==
    [][(lastFinalize # <<>> /\ lastFinalize[1].ran) =>
          /\ spans' = spans
          /\ activities' = activities
          /\ \A spanId \in DOMAIN spanObj :
                /\ spanObj'[spanId].endTimestamp = spanObj[spanId].endTimestamp
                /\ spanObj'[spanId].status = spanObj[spanId].status]_vars

\* C10: after the first _finishIdleTransaction(endTimestamp) on a
\* transaction with a span recorder, the transaction's own end time is
\* endTimestamp.
C10_OwnEndTime ==
    (finalizeCalls = 1 /\ lastFinalize[1].ran) =>
        spanObj[TxId].endTimestamp = <<lastFinalize[1].end>>

\* C11: _finishIdleTransaction on a transaction whose span recorder was
\* never initialised throws nothing and emits the transaction once.
C11_BareEmit ==
    [][(FinalizeStep /\ ~hasSpanRecorder) =>
          /\ thrown' = "none"
          /\ emitted' = emitted + 1]_vars

\* C12: once the transaction is finished or a finalize has run, no
\* heartbeat tick executes any more.
C12_HeartbeatStops ==
    [][(finalized \/ finalizeCalls > 0) => ~Beat]_vars

\* C13: when the router starts a transaction with a beforeNavigate option,
\* in a page and with a hub: if beforeNavigate returns null for the path
\* name, hub.startTransaction is not called and the scope's span stays as it
\* is; if it returns a string, hub.startTransaction is called once, with
\* that string as the name, and its result is set on the scope.
C13_BeforeNavigate ==
    [][(/\ \/ RouterInit /\ options.startTransactionOnPageLoad
           \/ HistoryChange /\ options.startTransactionOnLocationChange
        /\ hasLocation /\ hasHub
        /\ options.beforeNavigate # <<>>)
       => LET name == options.beforeNavigate[1][pathname']
              n == Len(transactions)
          IN IF name = <<>>
             THEN /\ Len(transactions') = n
                  /\ scopeSpan' = scopeSpan
                  /\ _activeTransaction' = <<>>
             ELSE /\ Len(transactions') = n + 1
                  /\ transactions'[n + 1].name = name[1]
                  /\ scopeSpan' = <<n + 1>>
                  /\ _activeTransaction' = <<n + 1>>]_vars

\* The page load started a transaction named by beforeNavigate; then the
\* history changed to a path for which beforeNavigate returns null: no
\* second transaction, and the scope still holds the first.
C13_Witness ==
    /\ navigations = 1
    /\ options.beforeNavigate # <<>>
    /\ options.beforeNavigate[1][pathname] = <<>>
    /\ Len(transactions) = 1
    /\ transactions[1].name = "home"
    /\ transactions[1].finishes = 1
    /\ _activeTransaction = <<>>
    /\ scopeSpan = <<1>>

\* C14: the processor returns every event; the event it returns differs from
\* the one it was given only if that is a transaction with both timestamps
\* whose difference is above maxTransactionDuration or below 0, and
\* maxTransactionDuration is not 0; the difference is then the status
\* deadline_exceeded and the tag maxTransactionDurationExceeded.
C14_MaxDurationProcessor ==
    processed =>
        /\ returned # <<>>
        /\ returned[1] # event =>
              /\ maxTransactionDuration # 0
              /\ event.type = "transaction"
              /\ event.timestamp # <<>>
              /\ event.start_timestamp # <<>>
              /\ \/ event.timestamp[1] - event.start_timestamp[1] > maxTransactionDuration
                 \/ event.timestamp[1] - event.start_timestamp[1] < 0
              /\ returned[1] =
                    [event EXCEPT !.trace = <<"deadline_exceeded">>,
                                  !.tags = @ \cup {"maxTransactionDurationExceeded"}]

\* A transaction that ends before it starts came back marked.
C14_Witness ==
    /\ processed
    /\ returned # <<>>
    /\ returned[1].trace = <<"deadline_exceeded">>
    /\ "maxTransactionDurationExceeded" \in returned[1].tags
    /\ event.trace = <<"ok">>
    /\ event.timestamp[1] < event.start_timestamp[1]

\* C15: when the recorder's add(span) is over it has returned normally, the
\* span's id is in the activity set, and no idle timer was set.
C15_AddActivates ==
    [][(InitSpanRecorder \/ AddSpan) =>
          /\ thrown' = "none"
          /\ spans'[Len(spans')] \in Range(activities')
          /\ idleTimers' = idleTimers]_vars

\* C16: finish() on a span the recorder has added returns normally, has set
\* the span's end time, and has taken the span's id out of the activity set.
C16_FinishPops ==
    [][\A spanId \in patched :
          FinishSpan(spanId) =>
             /\ thrown' = "none"
             /\ spanObj'[spanId].endTimestamp # <<>>
             /\ spanId \notin Range(activities')]_vars

\* C17: a pending idle timer is never cancelled: the list of pending timers
\* changes only by a new timer at its end or by its oldest timer firing, and
\* time does not pass a due timer; and a timer that fires on a transaction
\* with a span recorder while the activity set is not empty finalizes the
\* transaction.
C17_IdleTimerFinalizes ==
    [][/\ idleTimers' # idleTimers =>
             \/ idleTimers' = Append(idleTimers, IdleTimer)
             \/ idleTimers # <<>> /\ idleTimers' = Tail(idleTimers)
       /\ now' > now => \A i \in 1..Len(idleTimers) : idleTimers[i].due > now
       /\ (IdleFire /\ hasSpanRecorder /\ activities # <<>>) =>
             /\ thrown' = "none"
             /\ finalized'
             /\ spanObj'[TxId].endTimestamp # <<>>]_vars

\* C18: _popActivity(spanId) removes spanId from the activity set and keeps
\* the other ids in their order; it sets one idle timer, due and ending at
\* now + idleTimeout, exactly when the set is empty after the call (also
\* when it was empty before), and otherwise sets none.
C18_PopActivity ==
    [][\A spanId \in SpanIds :
          PopActivityStep(spanId) =>
             /\ Range(activities') = Range(activities) \ {spanId}
             /\ IsSubSeq(activities', activities)
             /\ idleTimers' =
                   IF activities' = <<>>
                   THEN Append(idleTimers, [due |-> now + idleTimeout,
                                            end |-> now + idleTimeout])
                   ELSE idleTimers]_vars

\* The caller's only two calls were pops on an empty set, with a timeout
\* that is not 0: two timers are pending.
C18_Witness ==
    /\ calls = 2
    /\ activities = <<>>
    /\ Len(idleTimers) = 2
    /\ idleTimeout > 0

\* C19: a heartbeat tick that finds the activity set empty leaves the counter
\* and the previous heartbeat string as they are, calls no finalize, and sets
\* the next heartbeat timer one period ahead.
C19_EmptyTick ==
    [][(Beat /\ activities = <<>>) =>
          /\ heartbeatCounter' = heartbeatCounter
          /\ prevHeartbeatString' = prevHeartbeatString
          /\ ~FinalizeStep
          /\ finalized' = finalized
          /\ heartbeatTimer' # heartbeatTimer
          /\ [id |-> heartbeatTimer', due |-> now + HeartbeatPeriod] \in hbTimers']_vars

\* The latest tick found the set empty while the counter was above 0.
C19_Witness ==
    /\ heartbeatTimer > 1
    /\ obs.set = {}
    /\ prevHeartbeatString # <<>>
    /\ heartbeatCounter >= 1

\* C20: a finalize leaves the end time and the status of every span other
\* than the transaction that already has an end time as they are.
C20_FinishedSpansKept ==
    [][FinalizeStep =>
          \A spanId \in DOMAIN spanObj \ {TxId} :
             spanObj[spanId].endTimestamp # <<>> =>
                /\ spanObj'[spanId].endTimestamp = spanObj[spanId].endTimestamp
                /\ spanObj'[spanId].status = spanObj[spanId].status]_vars

\* Two finalizes have run on a transaction with a recorder, and a span the
\* first one cancelled still has the end time it got then, before the end
\* timestamp of the second.
C20_Witness ==
    /\ finalizeCalls >= 2
    /\ lastFinalize[1].ran
    /\ \E spanId \in Range(spans) \ {TxId} :
          /\ spanObj[spanId].status = "cancelled"
          /\ spanObj[spanId].endTimestamp # <<>>
          /\ spanObj[spanId].endTimestamp[1] < lastFinalize[1].end

\* C21: _pushActivity(id) on a set that holds id leaves the set as it is;
\* pushing id twice gives what pushing it once gives; and one
\* _popActivity(id) after that leaves a set without id, with the other ids
\* as they were.
C21_PushIdempotent ==
    \A spanId \in SpanIds :
       LET once == PushActivity(activities, spanId)
           twice == PushActivity(once, spanId)
       IN /\ spanId \in Range(activities) => once = activities
          /\ Range(once) = Range(activities) \cup {spanId}
          /\ twice = once
          /\ spanId \notin Range(PopActivity(twice, spanId))
          /\ Range(PopActivity(twice, spanId)) = Range(activities) \ {spanId}

\* The activity set holds two ids: a push of either is a push of an id the
\* set already holds.
C21_Witness ==
    /\ Len(activities) >= 2
    /\ calls >= 3

\* C22: with idleTimeout = 0, a _popActivity call that empties a set that
\* was not empty runs no finalize itself: it changes no span, emits nothing
\* and sets exactly one idle timer, due now; the finalize is the separate
\* step of that timer firing.
C22_ZeroTimeoutDeferred ==
    [][\A spanId \in SpanIds :
          (/\ PopActivityStep(spanId)
           /\ idleTimeout = 0
           /\ activities # <<>>
           /\ activities' = <<>>)
          => /\ ~FinalizeStep
             /\ lastFinalize' = lastFinalize
             /\ spans' = spans
             /\ spanObj' = spanObj
             /\ finalized' = finalized
             /\ emitted' = emitted
             /\ Len(idleTimers') = Len(idleTimers) + 1
             /\ idleTimers'[Len(idleTimers')] = [due |-> now, end |-> now]]_vars

\* With idleTimeout = 0 the caller pushed an id and popped it: one timer is
\* pending and no finalize has run.
C22_Witness ==
    /\ idleTimeout = 0
    /\ calls = 2
    /\ ~hasSpanRecorder
    /\ ~finalized
    /\ activities = <<>>
    /\ Len(idleTimers) = 1
    /\ finalizeCalls = 0

\* C23: the callback given to afterNextFrame never runs twice and is never
\* scheduled twice, and every call of afterNextFrame leads to its callback
\* having run once, whether the animation frame comes first, the fallback
\* timer comes first, or no animation frame ever comes.
C23_CallbackOnce ==
    /\ [](\A i \in FrameCalls : invoked[i] + callbackTimers[i] <= 1)
    /\ \A i \in FrameCalls : (raf[i] # "unset") ~> (invoked[i] = 1)

\* One callback has run after its animation frame, with the fallback timer
\* cleared; the other after the fallback timer, with the frame cancelled.
C23_Witness ==
    \E i, j \in FrameCalls :
       /\ invoked[i] = 1 /\ raf[i] = "fired" /\ timeout[i] = "cleared"
       /\ invoked[j] = 1 /\ raf[j] = "cancelled" /\ timeout[j] = "fired"

\* C24: once the idle timer has called _finishIdleTransaction, or the
\* transaction is finished, no step sets the transaction's status to
\* deadline_exceeded or its heartbeat tag to failed.
C24_NoLateDeadline ==
    [][(\/ finalized
        \/ lastFinalize # <<>> /\ lastFinalize[1].by = "idle")
       => /\ tags' = tags
          /\ spanObj'[TxId].status = spanObj[TxId].status]_vars

\* C25: a history change with startTransactionOnLocationChange calls finish
\* on the transaction the router holds as active, if any, and a transaction
\* it starts then is a new, unfinished one that becomes the active one; so
\* at any time every transaction the router has started, other than the one
\* it holds as active, has had finish called on it.
C25_FinishBeforeStart ==
    [][/\ (HistoryChange /\ options.startTransactionOnLocationChange) =>
             /\ _activeTransaction # <<>> =>
                   transactions'[_activeTransaction[1]].finishes =
                      transactions[_activeTransaction[1]].finishes + 1
             /\ Len(transactions') > Len(transactions) =>
                   /\ Len(transactions') = Len(transactions) + 1
                   /\ transactions'[Len(transactions')].finishes = 0
                   /\ transactions'[Len(transactions')].op = "navigation"
                   /\ _activeTransaction' = <<Len(transactions')>>
       /\ \A i \in 1..Len(transactions') :
             <<i>> # _activeTransaction' => transactions'[i].finishes >= 1]_vars

\* After the page load and two history changes the router has started three
\* transactions: finish was called on the first two and the third is active.
C25_Witness ==
    /\ navigations = 2
    /\ Len(transactions) = 3
    /\ transactions[1].finishes = 1
    /\ transactions[2].finishes = 1
    /\ transactions[3].finishes = 0
    /\ _activeTransaction = <<3>>

\* C26: at most one heartbeat timer is pending, and a pending heartbeat
\* timer is the one _heartbeatTimer holds, set by the constructor or by the
\* latest tick.
C26_OneHeartbeatTimer ==
    /\ Cardinality(hbTimers) <= 1
    /\ \A tm \in hbTimers : tm.id = heartbeatTimer

\* Two ticks have run and the timer the second one set is pending.
C26_Witness ==
    /\ heartbeatTimer >= 3
    /\ Cardinality(hbTimers) = 1

====
